---- MODULE Spec2Model ----
(***************************************************************************)
(* Model of copilot_metrics_check: AnomalyDetector.detect and              *)
(* AnomalyDetector._calculate_severity (src/anomaly_detector.py) with the  *)
(* configuration of src/config.py, PrometheusClient.query and              *)
(* execute_queries (src/prometheus_client.py), main (src/main.py) and      *)
(* LLMAnalyzer._execute_analysis (src/llm_analyzer.py).                    *)
(*                                                                         *)
(* Specifications.  Spec: one call of detect on a well-shaped summary.     *)
(* SpecSeverity: _calculate_severity on its own.  SpecShapes: one call of  *)
(* detect on a summary with a field of unexpected shape.  SpecRepeat:      *)
(* several calls on one detector.  SpecMain: one run of main against a     *)
(* Prometheus API.  SpecLLMFair: one call of _execute_analysis.            *)
(*                                                                         *)
(* Numbers.  Python floats are modelled as fixed-point integers counting   *)
(* thousandths: F(80) = 80000 is 80.0 and 94900 is 94.9.  Every input      *)
(* value of the model is a multiple of 0.05, so the divisions by 2 and by  *)
(* 5 of the scoring formulas are exact.                                    *)
(*                                                                         *)
(* Values.  A Python value read from the summary is a tagged record:       *)
(* None is [kind |-> "none"], a float is [kind |-> "num", v |-> n], a list *)
(* is [kind |-> "list", items |-> <<...>>].  A dict is a function whose    *)
(* DOMAIN is its key set, so a missing key and a key holding None differ.  *)
(*                                                                         *)
(* Messages.  A record's message is modelled by the fixed text of its      *)
(* f-string; the formatted number inside it is left out.                   *)
(***************************************************************************)
EXTENDS Integers, Sequences, FiniteSets, TLC

VARIABLES
    thresholds,           \* self.thresholds
    weights,              \* self.weights
    severity_thresholds,  \* self.severity_thresholds
    pc,                   \* position of the running detect call
    summary,              \* detect's argument
    anomalies,            \* local list of detect
    severity_score,       \* local accumulator of detect (raw, unclamped)
    is_anomaly,           \* local of detect, set at line 211
    severity,             \* local of detect, set at line 212
    result,               \* the dict detect returned
    history,              \* what a caller of detect has kept of its calls
    main_pc,              \* position of main
    environ,              \* the required environment variables that are set
    force_detailed,       \* "--detailed" in sys.argv
    backend,              \* what the Prometheus API answers to each query
    queries,              \* execute_queries: the names still to be queried
    results,              \* execute_queries: local dict results
    main_summary,         \* main: local summary
    detailed,             \* main: local detailed
    llm_analysis,         \* main: local llm_analysis
    trace,                \* the effects of main, in the order they happen
    exit_code,            \* how main ended
    llm_pc,               \* position of _execute_analysis
    session,              \* the Copilot session of _execute_analysis
    result_content,       \* _execute_analysis: local list result_content
    done,                 \* _execute_analysis: the asyncio.Event done
    events,               \* what the event loop ran during the call, in order
    llm_return            \* what _execute_analysis returned, <<>> before

detector == <<thresholds, weights, severity_thresholds, pc, summary, anomalies,
              severity_score, is_anomaly, severity, result>>

process == <<main_pc, environ, force_detailed, backend, queries, results,
             main_summary, detailed, llm_analysis, trace, exit_code>>

analysis == <<llm_pc, session, result_content, done, events, llm_return>>

\* everything outside a detect call
world == <<history, process, analysis>>

vars == <<detector, world>>

config == <<thresholds, weights, severity_thresholds>>

-----------------------------------------------------------------------------
(* Fixed point and Python values *)

F(n) == n * 1000

None == [kind |-> "none"]

Num(n) == [kind |-> "num", v |-> n]

List(s) == [kind |-> "list", items |-> s]

EmptyDict == <<>>

Unset == "unset"

\* dict.get(key, default)
Get(d, key, default) == IF key \in DOMAIN d THEN d[key] ELSE default

\* Python's builtin min on two numbers
Min(a, b) == IF a <= b THEN a ELSE b

\* `x > number` is defined for a number x only: None > 0 and [..] > 0 raise
\* TypeError
Orderable(x) == x.kind = "num"

\* `x.get(...)` is defined for a dict x only: on None, a float or a list it
\* raises AttributeError.  The tagged values carry the key "kind", no dict of
\* the model does.
IsMapping(x) == "kind" \notin DOMAIN x

\* truth value of a Python value (None, 0.0 and [] are false)
Truthy(x) ==
    CASE x.kind = "none" -> FALSE
      [] x.kind = "num"  -> x.v # 0
      [] x.kind = "list" -> Len(x.items) > 0

-----------------------------------------------------------------------------
(* Configuration: src/config.py *)

CRITICAL_USAGE_THRESHOLD == F(95)

THRESHOLDS ==
    [cpu_usage |-> F(80), memory_usage |-> F(85), swap_usage |-> F(50),
     disk_usage |-> F(90), iowait |-> F(20), load1_per_cpu |-> F(2),
     network_errors_per_sec |-> F(10), tcp_retrans_per_sec |-> F(50)]

SEVERITY_WEIGHTS ==
    [system_down |-> F(100), cpu_high |-> F(30), iowait_high |-> F(20),
     load_extreme |-> F(15), memory_high |-> F(25), swap_high |-> F(20),
     disk_high |-> F(20), fs_readonly |-> F(50), network_errors |-> F(15),
     tcp_retrans |-> F(15), tcp_overflow |-> F(20)]

SEVERITY_THRESHOLDS ==
    [critical |-> F(80), high |-> F(40), medium |-> F(20), low |-> F(1)]

DefaultConfig == <<THRESHOLDS, SEVERITY_WEIGHTS, SEVERITY_THRESHOLDS>>

\* A second configuration, as the THRESHOLD_* environment variables and the
\* constructor's arguments allow: low thresholds, so that the weight caps
\* are reached by percentages below 100, a zero weight, and tier cutoffs
\* above the display clamp.
InjectedThresholds ==
    [cpu_usage |-> F(50), memory_usage |-> F(40), swap_usage |-> F(30),
     disk_usage |-> F(50), iowait |-> F(10), load1_per_cpu |-> F(2),
     network_errors_per_sec |-> F(0), tcp_retrans_per_sec |-> F(10)]

InjectedWeights ==
    [system_down |-> F(100), cpu_high |-> F(10), iowait_high |-> F(20),
     load_extreme |-> F(0), memory_high |-> F(25), swap_high |-> F(20),
     disk_high |-> F(20), fs_readonly |-> F(50), network_errors |-> F(1),
     tcp_retrans |-> F(5), tcp_overflow |-> F(20)]

InjectedSeverityThresholds ==
    [critical |-> F(120), high |-> F(60), medium |-> F(30), low |-> F(5)]

InjectedConfig ==
    <<InjectedThresholds, InjectedWeights, InjectedSeverityThresholds>>

Configs == {DefaultConfig, InjectedConfig}

-----------------------------------------------------------------------------
(* Inputs: the summaries detect is called with *)

\* at most this many keys are present in a summary
MaxPresent == 2

\* at most this many entries in fs_usage_top3
MaxFs == 2

Fields ==
    <<"up", "cpu_usage", "cpu_iowait", "load1", "memory_usage", "swap_usage",
      "fs_usage_top3", "fs_readonly", "network_err_per_sec",
      "tcp_retrans_per_sec", "tcp_listen_overflow_per_sec">>

\* one sample of fs_usage_top3, as execute_queries builds it
Entry(mp, v) == [labels |-> [mountpoint |-> mp], value |-> Num(v)]

FsEntries ==
    { Entry("/", 92000), Entry("/data", 60000),
      [labels |-> EmptyDict, value |-> Num(96000)] }

RECURSIVE SeqsUpTo(_, _)
SeqsUpTo(S, n) ==
    IF n = 0 THEN {<<>>}
    ELSE LET shorter == SeqsUpTo(S, n - 1)
         IN  shorter \cup
             {Append(s, e) : s \in {t \in shorter : Len(t) = n - 1}, e \in S}

Nums(S) == {Num(n) : n \in S}

FieldValues(key) ==
    {None} \cup
    CASE key = "up"            -> Nums({0, 1000})
      [] key = "cpu_usage"     -> Nums({80000, 94900, 95000})
      [] key = "cpu_iowait"    -> Nums({20000, 45000})
      [] key = "load1"         -> Nums({10000, 12500})
      [] key = "memory_usage"  -> Nums({85000, 96000})
      [] key = "swap_usage"    -> Nums({50000, 60500})
      [] key = "fs_usage_top3" -> {List(s) : s \in SeqsUpTo(FsEntries, MaxFs)}
      [] key = "fs_readonly"   -> Nums({0, 1000})
      [] key = "network_err_per_sec" -> Nums({10000, 12000})
      [] key = "tcp_retrans_per_sec" -> Nums({50000, 60000})
      [] key = "tcp_listen_overflow_per_sec" -> Nums({0, 50, 15000})

\* the dicts over Fields[i..] that hold at most n keys
RECURSIVE SummariesFrom(_, _)
SummariesFrom(i, n) ==
    IF i > Len(Fields) THEN {EmptyDict}
    ELSE SummariesFrom(i + 1, n) \cup
         IF n = 0 THEN {}
         ELSE {(Fields[i] :> v) @@ d :
                   v \in FieldValues(Fields[i]), d \in SummariesFrom(i + 1, n - 1)}

Summaries == SummariesFrom(1, MaxPresent)

-----------------------------------------------------------------------------
(* AnomalyDetector.__init__ *)

\* a local of main that is not assigned yet
Unbound == [kind |-> "unbound"]

\* main has not ended
Running == [how |-> "running"]

Init ==
    /\ \E c \in Configs :
           /\ thresholds = c[1]
           /\ weights = c[2]
           /\ severity_thresholds = c[3]
    /\ pc = "idle"
    /\ summary = EmptyDict
    /\ anomalies = <<>>
    /\ severity_score = 0
    /\ is_anomaly = Unset
    /\ severity = Unset
    /\ result = Unset
    /\ history = <<>>
    /\ main_pc = "idle"
    /\ environ = {}
    /\ force_detailed = FALSE
    /\ backend = EmptyDict
    /\ queries = <<>>
    /\ results = EmptyDict
    /\ main_summary = Unbound
    /\ detailed = Unbound
    /\ llm_analysis = Unset
    /\ trace = <<>>
    /\ exit_code = Running
    /\ llm_pc = "idle"
    /\ session = "none"
    /\ result_content = <<>>
    /\ done = FALSE
    /\ events = <<>>
    /\ llm_return = <<>>

-----------------------------------------------------------------------------
(* AnomalyDetector._calculate_severity *)

\* variant: the cutoffs compared with > instead of >=
_calculate_severity_strict(score) ==
    IF score > severity_thresholds.critical THEN "critical"
    ELSE IF score > severity_thresholds.high THEN "high"
    ELSE IF score > severity_thresholds.medium THEN "medium"
    ELSE IF score > severity_thresholds.low THEN "low"
    ELSE "normal"

_calculate_severity(score) ==
    IF score >= severity_thresholds.critical THEN "critical"
    ELSE IF score >= severity_thresholds.high THEN "high"
    ELSE IF score >= severity_thresholds.medium THEN "medium"
    ELSE IF score >= severity_thresholds.low THEN "low"
    ELSE "normal"

-----------------------------------------------------------------------------
(* AnomalyDetector.detect, one step per rule *)

\* variant: the tag flips above 95 instead of at 95
UsageSeverityAbove(usage) ==
    IF usage <= CRITICAL_USAGE_THRESHOLD THEN "warning" ELSE "critical"

\* the severity tag of the three usage-percentage rules
UsageSeverity(usage) ==
    IF usage < CRITICAL_USAGE_THRESHOLD THEN "warning" ELSE "critical"

\* variant: the list and the score live on between calls
detect_call_keeping(s) ==
    /\ pc = "idle"
    /\ summary' = s
    /\ is_anomaly' = Unset
    /\ severity' = Unset
    /\ result' = Unset
    /\ pc' = "up"
    /\ UNCHANGED <<config, anomalies, severity_score>>

\* detect(summary) is entered: lines 38-39
detect_call(s) ==
    /\ pc = "idle"
    /\ summary' = s
    /\ anomalies' = <<>>
    /\ severity_score' = 0
    /\ is_anomaly' = Unset
    /\ severity' = Unset
    /\ result' = Unset
    /\ pc' = "up"
    /\ UNCHANGED config

\* the rule at `here` leaves the lists alone and control goes to `next`
Skip(next) ==
    /\ pc' = next
    /\ UNCHANGED <<anomalies, severity_score>>

\* the rule appends one record and adds its contribution
Emit(record, contribution, next) ==
    /\ anomalies' = Append(anomalies, record)
    /\ severity_score' = severity_score + contribution
    /\ pc' = next

\* an exception leaves detect: no result is returned
Raise ==
    /\ pc' = "raised"
    /\ UNCHANGED <<anomalies, severity_score>>

Frame == UNCHANGED <<config, summary, is_anomaly, severity, result, world>>

\* variant: a missing up is read as 0
CheckUpDefaultZero ==
    /\ pc = "up"
    /\ LET up == Get(summary, "up", Num(0))
       IN  IF up.kind = "num" /\ up.v = 0
           THEN Emit([metric |-> "up", message |-> "system down",
                      severity |-> "critical", value |-> 0],
                     weights.system_down, "cpu_usage")
           ELSE Skip("cpu_usage")
    /\ Frame

CheckUp ==
    /\ pc = "up"
    /\ LET up == Get(summary, "up", None)
       IN  IF up.kind = "num" /\ up.v = 0
           THEN Emit([metric |-> "up", message |-> "system down",
                      severity |-> "critical", value |-> 0],
                     weights.system_down, "cpu_usage")
           ELSE Skip("cpu_usage")
    /\ Frame

CheckCpuUsage ==
    /\ pc = "cpu_usage"
    /\ LET cpu_usage == Get(summary, "cpu_usage", None)
       IN  IF cpu_usage.kind = "none" THEN Skip("cpu_iowait")
           ELSE IF ~Orderable(cpu_usage) THEN Raise
           ELSE IF cpu_usage.v > thresholds.cpu_usage
           THEN LET excess == (cpu_usage.v - thresholds.cpu_usage) \div 2
                IN  Emit([metric |-> "cpu_usage", message |-> "cpu usage high",
                          severity |-> UsageSeverity(cpu_usage.v),
                          value |-> cpu_usage.v,
                          threshold |-> thresholds.cpu_usage],
                         Min(weights.cpu_high, excess), "cpu_iowait")
           ELSE Skip("cpu_iowait")
    /\ Frame

\* variant: the threshold compared with >= instead of >
CheckIowaitAtThreshold ==
    /\ pc = "cpu_iowait"
    /\ LET iowait == Get(summary, "cpu_iowait", None)
       IN  IF iowait.kind = "none" THEN Skip("load1")
           ELSE IF ~Orderable(iowait) THEN Raise
           ELSE IF iowait.v >= thresholds.iowait
           THEN LET excess == iowait.v - thresholds.iowait
                IN  Emit([metric |-> "cpu_iowait", message |-> "iowait high",
                          severity |-> "warning", value |-> iowait.v,
                          threshold |-> thresholds.iowait],
                         Min(weights.iowait_high, excess), "load1")
           ELSE Skip("load1")
    /\ Frame

CheckIowait ==
    /\ pc = "cpu_iowait"
    /\ LET iowait == Get(summary, "cpu_iowait", None)
       IN  IF iowait.kind = "none" THEN Skip("load1")
           ELSE IF ~Orderable(iowait) THEN Raise
           ELSE IF iowait.v > thresholds.iowait
           THEN LET excess == iowait.v - thresholds.iowait
                IN  Emit([metric |-> "cpu_iowait", message |-> "iowait high",
                          severity |-> "warning", value |-> iowait.v,
                          threshold |-> thresholds.iowait],
                         Min(weights.iowait_high, excess), "load1")
           ELSE Skip("load1")
    /\ Frame

extreme_load_threshold == F(10)

CheckLoad1 ==
    /\ pc = "load1"
    /\ LET load1 == Get(summary, "load1", None)
       IN  IF load1.kind = "none" THEN Skip("memory_usage")
           ELSE IF ~Orderable(load1) THEN Raise
           ELSE IF load1.v > extreme_load_threshold
           THEN Emit([metric |-> "load1", message |-> "load average high",
                      severity |-> "warning", value |-> load1.v],
                     Min(weights.load_extreme, load1.v), "memory_usage")
           ELSE Skip("memory_usage")
    /\ Frame

CheckMemoryUsage ==
    /\ pc = "memory_usage"
    /\ LET memory_usage == Get(summary, "memory_usage", None)
       IN  IF memory_usage.kind = "none" THEN Skip("swap_usage")
           ELSE IF ~Orderable(memory_usage) THEN Raise
           ELSE IF memory_usage.v > thresholds.memory_usage
           THEN LET excess == (memory_usage.v - thresholds.memory_usage) \div 2
                IN  Emit([metric |-> "memory_usage",
                          message |-> "memory usage high",
                          severity |-> UsageSeverity(memory_usage.v),
                          value |-> memory_usage.v,
                          threshold |-> thresholds.memory_usage],
                         Min(weights.memory_high, excess), "swap_usage")
           ELSE Skip("swap_usage")
    /\ Frame

\* variant: the excess is added without the weight cap
CheckSwapUsageUncapped ==
    /\ pc = "swap_usage"
    /\ LET swap_usage == Get(summary, "swap_usage", None)
       IN  IF swap_usage.kind = "none" THEN Skip("fs_usage_top3")
           ELSE IF ~Orderable(swap_usage) THEN Raise
           ELSE IF swap_usage.v > thresholds.swap_usage
           THEN LET excess == swap_usage.v - thresholds.swap_usage
                IN  Emit([metric |-> "swap_usage", message |-> "swap usage high",
                          severity |-> "warning", value |-> swap_usage.v,
                          threshold |-> thresholds.swap_usage],
                         excess, "fs_usage_top3")
           ELSE Skip("fs_usage_top3")
    /\ Frame

CheckSwapUsage ==
    /\ pc = "swap_usage"
    /\ LET swap_usage == Get(summary, "swap_usage", None)
       IN  IF swap_usage.kind = "none" THEN Skip("fs_usage_top3")
           ELSE IF ~Orderable(swap_usage) THEN Raise
           ELSE IF swap_usage.v > thresholds.swap_usage
           THEN LET excess == swap_usage.v - thresholds.swap_usage
                IN  Emit([metric |-> "swap_usage", message |-> "swap usage high",
                          severity |-> "warning", value |-> swap_usage.v,
                          threshold |-> thresholds.swap_usage],
                         Min(weights.swap_high, excess), "fs_usage_top3")
           ELSE Skip("fs_usage_top3")
    /\ Frame

\* variant: the loop stops after the first entry over the threshold
RECURSIVE FsLoopFirstOnly(_, _, _)
FsLoopFirstOnly(fs_top3, i, st) ==
    IF i > Len(fs_top3) \/ st.raised THEN st
    ELSE LET fs == fs_top3[i]
             usage == Get(fs, "value", None)
             labels == Get(fs, "labels", EmptyDict)
         IN  IF ~IsMapping(fs) THEN [st EXCEPT !.raised = TRUE]
             ELSE IF usage.kind = "none" THEN FsLoopFirstOnly(fs_top3, i + 1, st)
             ELSE IF ~Orderable(usage) THEN [st EXCEPT !.raised = TRUE]
             ELSE IF usage.v > thresholds.disk_usage
             THEN IF ~IsMapping(labels) THEN [st EXCEPT !.raised = TRUE] ELSE
                  LET mountpoint == Get(labels, "mountpoint", "unknown")
                      excess == (usage.v - thresholds.disk_usage) \div 2
                  IN  [st EXCEPT
                          !.anomalies = Append(@,
                              [metric |-> "fs_usage",
                               message |-> "disk usage high",
                               severity |-> UsageSeverity(usage.v),
                               value |-> usage.v,
                               threshold |-> thresholds.disk_usage,
                               mountpoint |-> mountpoint]),
                          !.severity_score = @ + Min(weights.disk_high, excess)]
             ELSE FsLoopFirstOnly(fs_top3, i + 1, st)

\* the for loop of lines 136-153 from entry i on, over the locals
\* st = [anomalies, severity_score, raised]
RECURSIVE FsLoop(_, _, _)
FsLoop(fs_top3, i, st) ==
    IF i > Len(fs_top3) \/ st.raised THEN st
    ELSE LET fs == fs_top3[i]
             usage == Get(fs, "value", None)
             labels == Get(fs, "labels", EmptyDict)
         IN  IF ~IsMapping(fs) THEN [st EXCEPT !.raised = TRUE]
             ELSE IF usage.kind = "none" THEN FsLoop(fs_top3, i + 1, st)
             ELSE IF ~Orderable(usage) THEN [st EXCEPT !.raised = TRUE]
             ELSE IF usage.v > thresholds.disk_usage
             THEN IF ~IsMapping(labels) THEN [st EXCEPT !.raised = TRUE] ELSE
                  LET mountpoint == Get(labels, "mountpoint", "unknown")
                      excess == (usage.v - thresholds.disk_usage) \div 2
                  IN  FsLoop(fs_top3, i + 1,
                          [st EXCEPT
                              !.anomalies = Append(@,
                                  [metric |-> "fs_usage",
                                   message |-> "disk usage high",
                                   severity |-> UsageSeverity(usage.v),
                                   value |-> usage.v,
                                   threshold |-> thresholds.disk_usage,
                                   mountpoint |-> mountpoint]),
                              !.severity_score = @ + Min(weights.disk_high, excess)])
             ELSE FsLoop(fs_top3, i + 1, st)

CheckFsUsage ==
    /\ pc = "fs_usage_top3"
    /\ LET fs_top3 == Get(summary, "fs_usage_top3", None)
       IN  IF Truthy(fs_top3) /\ fs_top3.kind = "list"
           THEN LET st == FsLoop(fs_top3.items, 1,
                               [anomalies |-> anomalies,
                                severity_score |-> severity_score,
                                raised |-> FALSE])
                IN  IF st.raised THEN Raise
                    ELSE /\ anomalies' = st.anomalies
                         /\ severity_score' = st.severity_score
                         /\ pc' = "fs_readonly"
           ELSE Skip("fs_readonly")
    /\ Frame

CheckFsReadonly ==
    /\ pc = "fs_readonly"
    /\ LET fs_readonly == Get(summary, "fs_readonly", Num(0))
       IN  IF ~Orderable(fs_readonly) THEN Raise
           ELSE IF fs_readonly.v > 0
           THEN Emit([metric |-> "fs_readonly",
                      message |-> "read-only filesystem",
                      severity |-> "critical", value |-> F(1)],
                     weights.fs_readonly, "network_err_per_sec")
           ELSE Skip("network_err_per_sec")
    /\ Frame

CheckNetworkErr ==
    /\ pc = "network_err_per_sec"
    /\ LET net_err == Get(summary, "network_err_per_sec", Num(0))
       IN  IF ~Orderable(net_err) THEN Raise
           ELSE IF net_err.v > thresholds.network_errors_per_sec
           THEN LET excess == net_err.v - thresholds.network_errors_per_sec
                IN  Emit([metric |-> "network_err_per_sec",
                          message |-> "network errors high",
                          severity |-> "warning", value |-> net_err.v,
                          threshold |-> thresholds.network_errors_per_sec],
                         Min(weights.network_errors, excess),
                         "tcp_retrans_per_sec")
           ELSE Skip("tcp_retrans_per_sec")
    /\ Frame

CheckTcpRetrans ==
    /\ pc = "tcp_retrans_per_sec"
    /\ LET tcp_retrans == Get(summary, "tcp_retrans_per_sec", Num(0))
       IN  IF ~Orderable(tcp_retrans) THEN Raise
           ELSE IF tcp_retrans.v > thresholds.tcp_retrans_per_sec
           THEN LET excess ==
                        (tcp_retrans.v - thresholds.tcp_retrans_per_sec) \div 5
                IN  Emit([metric |-> "tcp_retrans_per_sec",
                          message |-> "tcp retransmissions high",
                          severity |-> "warning", value |-> tcp_retrans.v,
                          threshold |-> thresholds.tcp_retrans_per_sec],
                         Min(weights.tcp_retrans, excess),
                         "tcp_listen_overflow_per_sec")
           ELSE Skip("tcp_listen_overflow_per_sec")
    /\ Frame

CheckTcpOverflow ==
    /\ pc = "tcp_listen_overflow_per_sec"
    /\ LET tcp_overflow == Get(summary, "tcp_listen_overflow_per_sec", Num(0))
       IN  IF ~Orderable(tcp_overflow) THEN Raise
           ELSE IF tcp_overflow.v > 0
           THEN Emit([metric |-> "tcp_listen_overflow_per_sec",
                      message |-> "tcp listen queue overflow",
                      severity |-> "warning", value |-> tcp_overflow.v],
                     Min(weights.tcp_overflow, tcp_overflow.v * 2), "judge")
           ELSE Skip("judge")
    /\ Frame

\* variant: no clamp
DisplayScoreRaw(score) == score

\* the display clamp of line 218
DisplayScore(score) == Min(F(100), score)

\* variant: the tier is computed from the clamped score
JudgeClamped ==
    /\ pc = "judge"
    /\ is_anomaly' = (Len(anomalies) > 0)
    /\ severity' = _calculate_severity(DisplayScore(severity_score))
    /\ pc' = "return"
    /\ UNCHANGED <<config, summary, anomalies, severity_score, result, world>>

\* variant: the flag follows the tier instead of the list
JudgeByTier ==
    /\ pc = "judge"
    /\ is_anomaly' = (_calculate_severity(severity_score) # "normal")
    /\ severity' = _calculate_severity(severity_score)
    /\ pc' = "return"
    /\ UNCHANGED <<config, summary, anomalies, severity_score, result, world>>

\* lines 211-212
Judge ==
    /\ pc = "judge"
    /\ is_anomaly' = (Len(anomalies) > 0)
    /\ severity' = _calculate_severity(severity_score)
    /\ pc' = "return"
    /\ UNCHANGED <<config, summary, anomalies, severity_score, result, world>>

\* lines 214-220
Return ==
    /\ pc = "return"
    /\ result' = [is_anomaly |-> is_anomaly,
                  anomalies |-> anomalies,
                  severity |-> severity,
                  severity_score |-> DisplayScore(severity_score),
                  anomaly_count |-> Len(anomalies)]
    /\ pc' = "done"
    /\ UNCHANGED <<config, summary, anomalies, severity_score, is_anomaly,
                   severity, world>>

Next ==
    \/ pc = "idle" /\ UNCHANGED world /\ \E s \in Summaries : detect_call(s)
    \/ CheckUp
    \/ CheckCpuUsage
    \/ CheckIowait
    \/ CheckLoad1
    \/ CheckMemoryUsage
    \/ CheckSwapUsage
    \/ CheckFsUsage
    \/ CheckFsReadonly
    \/ CheckNetworkErr
    \/ CheckTcpRetrans
    \/ CheckTcpOverflow
    \/ Judge
    \/ Return

Spec == Init /\ [][Next]_vars

-----------------------------------------------------------------------------
(* _calculate_severity called on its own, over a range of scores *)

\* the scores run from -1.0 to MaxScore.999
MaxScore == 130

Scores == {F(n) + d : n \in -1..MaxScore, d \in {0, 500, 999}}

calculate_severity_call(score) ==
    /\ pc = "idle"
    /\ severity_score' = score
    /\ severity' = _calculate_severity(score)
    /\ pc' = "classified"
    /\ UNCHANGED <<config, summary, anomalies, is_anomaly, result, world>>

SeverityNext ==
    pc = "idle" /\ \E score \in Scores : calculate_severity_call(score)

SpecSeverity == Init /\ [][SeverityNext]_vars

-----------------------------------------------------------------------------
(* detect called with optional fields of unexpected shape *)

\* a scalar-metric field holding the list execute_queries builds from two
\* series
SeriesList == List(<<Entry("a", 99000), Entry("b", 0)>>)

\* fs_usage_top3 that is not a list, or whose entries are not {labels, value}
\* mappings with a labels mapping
MalformedFs ==
    { Num(96000),
      List(<<Num(96000)>>),
      List(<<None>>),
      List(<<[labels |-> None, value |-> Num(96000)]>>),
      List(<<[labels |-> None, value |-> Num(60000)]>>),
      List(<<Entry("/", 96000), Num(96000)>>),
      List(<<[labels |-> EmptyDict, value |-> SeriesList]>>) }

MalformedValues(key) ==
    IF key = "fs_usage_top3" THEN MalformedFs ELSE {SeriesList}

\* the well-formed rest of the summary
Companions ==
    { EmptyDict,
      "up" :> Num(0),
      "tcp_listen_overflow_per_sec" :> Num(50),
      ("up" :> Num(0)) @@ ("tcp_listen_overflow_per_sec" :> Num(50)) }

ShapeSummaries ==
    UNION { { (Fields[i] :> v) @@ d :
                  v \in MalformedValues(Fields[i]), d \in Companions } :
            i \in 1..Len(Fields) }

ShapesNext ==
    \/ pc = "idle" /\ UNCHANGED world /\ \E s \in ShapeSummaries : detect_call(s)
    \/ CheckUp
    \/ CheckCpuUsage
    \/ CheckIowait
    \/ CheckLoad1
    \/ CheckMemoryUsage
    \/ CheckSwapUsage
    \/ CheckFsUsage
    \/ CheckFsReadonly
    \/ CheckNetworkErr
    \/ CheckTcpRetrans
    \/ CheckTcpOverflow
    \/ Judge
    \/ Return

SpecShapes == Init /\ [][ShapesNext]_vars

-----------------------------------------------------------------------------
(* detect called again and again on one detector *)

\* a caller makes at most this many calls
MaxCalls == 3

RepeatSummaries ==
    { EmptyDict,
      "up" :> Num(0),
      "cpu_usage" :> Num(95000),
      "fs_usage_top3" :> List(<<Entry("/", 92000), Entry("/data", 60000)>>),
      ("swap_usage" :> Num(60500)) @@ ("tcp_listen_overflow_per_sec" :> Num(50)),
      "fs_readonly" :> None }

\* what the caller got from a call: the dict returned, or the exception
Outcome == IF pc = "done" THEN result ELSE [raised |-> TRUE]

\* the call is over: the caller keeps what it passed and what it got, and
\* is free to call again
Collect ==
    /\ pc \in {"done", "raised"}
    /\ Len(history) < MaxCalls
    /\ history' = Append(history,
                         [summary |-> summary, config |-> config,
                          outcome |-> Outcome])
    /\ pc' = "idle"
    /\ UNCHANGED <<config, summary, anomalies, severity_score, is_anomaly,
                   severity, result, process, analysis>>

RepeatNext ==
    \/ pc = "idle" /\ UNCHANGED world /\ \E s \in RepeatSummaries : detect_call(s)
    \/ CheckUp
    \/ CheckCpuUsage
    \/ CheckIowait
    \/ CheckLoad1
    \/ CheckMemoryUsage
    \/ CheckSwapUsage
    \/ CheckFsUsage
    \/ CheckFsReadonly
    \/ CheckNetworkErr
    \/ CheckTcpRetrans
    \/ CheckTcpOverflow
    \/ Judge
    \/ Return
    \/ Collect

SpecRepeat == Init /\ [][RepeatNext]_vars

-----------------------------------------------------------------------------
(* The Prometheus API as the client sees it: src/prometheus_client.py *)

\* at most this many queries get an answer other than the usual one
MaxOdd == 1

\* the queries of the summary batch that detect reads, in the order of
\* SUMMARY_QUERIES; the ten other names are fetched the same way and are
\* read by the log and the prompt only
SummaryNames == Fields

\* two of the names of DETAILED_QUERIES
DetailedNames == <<"cpu_by_mode", "fs_all_usage">>

\* a sample value on the wire is the decimal text of a number
Str(n) == [kind |-> "str", text |-> n]

\* float(text)
Float(s) == Num(s.text)

\* one element of data.result: {"metric": {...}, "value": [ts, "text"]}
Series(mp, v) == [metric |-> [mountpoint |-> mp], value |-> <<0, Str(v)>>]

\* an element without a value (a native histogram sample)
ValuelessSeries == [metric |-> EmptyDict]

\* requests.get, raise_for_status or response.json raised RequestException
RequestError == [kind |-> "request_error"]

Json(body) == [kind |-> "json", body |-> body]

Success(series) == Json([status |-> "success", data |-> [result |-> series]])

ErrorStatus == Json([status |-> "error", error |-> "bad_data"])

\* a JSON body that is not an object
NotAnObject == Json(List(<<>>))

\* the usual answer: one series below every threshold of config.py, three
\* filesystems for the topk query, several series for the detailed queries
Usual(name) ==
    CASE name = "up"            -> Success(<<Series("", 1000)>>)
      [] name = "cpu_usage"     -> Success(<<Series("", 80000)>>)
      [] name = "cpu_iowait"    -> Success(<<Series("", 20000)>>)
      [] name = "load1"         -> Success(<<Series("", 10000)>>)
      [] name = "memory_usage"  -> Success(<<Series("", 85000)>>)
      [] name = "swap_usage"    -> Success(<<Series("", 50000)>>)
      [] name = "fs_usage_top3" ->
             Success(<<Series("/", 60000), Series("/data", 60000),
                       Series("/boot", 30000)>>)
      [] name = "fs_readonly"   -> Success(<<Series("", 0)>>)
      [] name = "network_err_per_sec" -> Success(<<Series("", 10000)>>)
      [] name = "tcp_retrans_per_sec" -> Success(<<Series("", 50000)>>)
      [] name = "tcp_listen_overflow_per_sec" -> Success(<<Series("", 0)>>)
      [] OTHER -> Success(<<Series("a", 1000), Series("b", 2000)>>)

\* a value over the rule's threshold
High(name) ==
    CASE name = "up"            -> 0
      [] name = "cpu_usage"     -> 95000
      [] name = "cpu_iowait"    -> 45000
      [] name = "load1"         -> 12500
      [] name = "memory_usage"  -> 96000
      [] name = "swap_usage"    -> 60500
      [] name = "fs_usage_top3" -> 96000
      [] name = "fs_readonly"   -> 1000
      [] name = "network_err_per_sec" -> 12000
      [] name = "tcp_retrans_per_sec" -> 60000
      [] name = "tcp_listen_overflow_per_sec" -> 50
      [] OTHER -> 3000

\* the other answers
Odd(name) ==
    { RequestError, ErrorStatus, NotAnObject,
      Success(<<>>),
      Success(<<ValuelessSeries>>),
      Success(<<Series("/", High(name))>>),
      Success(<<Series("/", High(name)), Series("/data", 60000)>>),
      Success(<<Series("/", High(name)), ValuelessSeries>>) }

AllNames == SummaryNames \o DetailedNames

\* the answers to AllNames[i..] with at most n that are not the usual one
RECURSIVE BackendsFrom(_, _)
BackendsFrom(i, n) ==
    IF i > Len(AllNames) THEN {EmptyDict}
    ELSE {(AllNames[i] :> Usual(AllNames[i])) @@ b : b \in BackendsFrom(i + 1, n)}
         \cup
         IF n = 0 THEN {}
         ELSE {(AllNames[i] :> r) @@ b :
                   r \in Odd(AllNames[i]), b \in BackendsFrom(i + 1, n - 1)}

\* a network outage: every request fails
OutageBackend ==
    [name \in {AllNames[i] : i \in 1..Len(AllNames)} |-> RequestError]

Backends == BackendsFrom(1, MaxOdd) \cup {OutageBackend}

\* PrometheusClient.query: [raised, data]; data is None or the "data" object
query(response) ==
    IF response.kind = "request_error" THEN [raised |-> FALSE, data |-> None]
    ELSE IF ~IsMapping(response.body) THEN [raised |-> TRUE, data |-> None]
    ELSE IF "status" \in DOMAIN response.body
            /\ response.body.status = "success"
         THEN [raised |-> FALSE, data |-> Get(response.body, "data", EmptyDict)]
         ELSE [raised |-> FALSE, data |-> None]

\* item.get("value", [None, None])[1]
SampleText(item) == Get(item, "value", <<None, None>>)[2]

\* execute_queries, lines 116-135: the value stored for one query
Shape(data) ==
    LET series == Get(data, "result", <<>>)
    IN  IF Len(series) = 0 THEN None
        ELSE IF Len(series) = 1
        THEN IF SampleText(series[1]).kind # "none"
             THEN Float(SampleText(series[1]))
             ELSE None
        ELSE LET kept == SelectSeq(series,
                             LAMBDA item : SampleText(item).kind # "none")
             IN  List([i \in 1..Len(kept) |->
                          [labels |-> Get(kept[i], "metric", EmptyDict),
                           value |-> Float(SampleText(kept[i]))]])

-----------------------------------------------------------------------------
(* main: src/main.py *)

Required == {"INSTANCE_ID", "PROM_URL", "API_KEY"}

\* main ended with `return code`
Returned(code) == [how |-> "returned", code |-> code]

\* main ended with an exception nothing caught
Uncaught == [how |-> "uncaught"]

ErrorText == "error, see the log"

\* the text _execute_analysis returns when no message was received
NoResultText == "no result"

\* what analyze_metrics_sync returns: the model's text or NoResultText
AnalysisTexts == {"analysis", NoResultText}

\* one entry of the trace
Effect(op, arg, ok, data) == [op |-> op, arg |-> arg, ok |-> ok, data |-> data]

Exit(code) ==
    /\ exit_code' = code
    /\ main_pc' = "exited"

\* the process is started with its environment and arguments
Start ==
    /\ main_pc = "idle"
    /\ \E env \in SUBSET Required : environ' = env
    /\ \E flag \in BOOLEAN : force_detailed' = flag
    /\ \E b \in Backends : backend' = b
    /\ main_pc' = "validate"
    /\ UNCHANGED <<detector, history, analysis, queries, results, main_summary,
                   detailed, llm_analysis, trace, exit_code>>

\* lines 123-125 with config.validate_config, then lines 140-142 up to the
\* entry of execute_queries
ValidateConfig ==
    /\ main_pc = "validate"
    /\ IF environ # Required
       THEN Exit(Returned(1)) /\ UNCHANGED <<queries, results>>
       ELSE /\ main_pc' = "fetch_summary"
            /\ queries' = SummaryNames
            /\ results' = EmptyDict
            /\ UNCHANGED exit_code
    /\ UNCHANGED <<detector, history, analysis, environ, force_detailed, backend,
                   main_summary, detailed, llm_analysis, trace>>

\* variant: a query without data is left out of the results
QueryStepOmitting ==
    /\ main_pc \in {"fetch_summary", "fetch_detailed"}
    /\ queries # <<>>
    /\ LET name == Head(queries)
           answer == query(backend[name])
       IN  /\ trace' = Append(trace, Effect("query", name, TRUE, Unset))
           /\ IF answer.raised
              THEN /\ Exit(IF main_pc = "fetch_summary" THEN Returned(1) ELSE Uncaught)
                   /\ UNCHANGED <<queries, results>>
              ELSE /\ results' =
                          IF answer.data = None \/ Shape(answer.data) = None
                          THEN results
                          ELSE (name :> Shape(answer.data)) @@ results
                   /\ queries' = Tail(queries)
                   /\ UNCHANGED <<main_pc, exit_code>>
    /\ UNCHANGED <<detector, history, analysis, environ, force_detailed, backend,
                   main_summary, detailed, llm_analysis>>

\* one turn of the loop of execute_queries (lines 111-135) in either batch;
\* an exception leaves execute_queries: the summary batch is inside the try
\* of lines 140-145, the detailed batch (line 178) is not
QueryStep ==
    /\ main_pc \in {"fetch_summary", "fetch_detailed"}
    /\ queries # <<>>
    /\ LET name == Head(queries)
           answer == query(backend[name])
       IN  /\ trace' = Append(trace, Effect("query", name, TRUE, Unset))
           /\ IF answer.raised
              THEN /\ Exit(IF main_pc = "fetch_summary" THEN Returned(1) ELSE Uncaught)
                   /\ UNCHANGED <<queries, results>>
              ELSE /\ results' =
                          IF answer.data = None
                          THEN (name :> None) @@ results
                          ELSE (name :> Shape(answer.data)) @@ results
                   /\ queries' = Tail(queries)
                   /\ UNCHANGED <<main_pc, exit_code>>
    /\ UNCHANGED <<detector, history, analysis, environ, force_detailed, backend,
                   main_summary, detailed, llm_analysis>>

\* format_summary applies a float format to these fields unless None
Formatted ==
    {"cpu_usage", "cpu_iowait", "memory_usage", "swap_usage",
     "network_err_per_sec", "tcp_retrans_per_sec"}

\* format_summary(summary) raises TypeError: a list under a float format
FormatRaises(s) ==
    \/ \E key \in Formatted : Get(s, key, None).kind = "list"
    \/ LET load1 == Get(s, "load1", None)
       IN  load1.kind = "list" /\ Truthy(load1)

\* execute_queries returns the summary (line 137, 142); line 147 logs it
SummaryFetched ==
    /\ main_pc = "fetch_summary"
    /\ queries = <<>>
    /\ main_summary' = results
    /\ IF FormatRaises(results)
       THEN Exit(Uncaught)
       ELSE main_pc' = "detect" /\ UNCHANGED exit_code
    /\ UNCHANGED <<detector, history, analysis, environ, force_detailed, backend,
                   queries, results, detailed, llm_analysis, trace>>

\* lines 151-152: detect is entered
CallDetect ==
    /\ main_pc = "detect"
    /\ detect_call(main_summary)
    /\ main_pc' = "detecting"
    /\ trace' = Append(trace, Effect("detect", "", TRUE, Unset))
    /\ UNCHANGED <<history, analysis, environ, force_detailed, backend, queries,
                   results, main_summary, detailed, llm_analysis, exit_code>>

\* variant: the detailed batch is fetched on an anomaly only
DetectReturnedIgnoringFlag ==
    /\ main_pc = "detecting"
    /\ pc = "done"
    /\ detailed' = None
    /\ IF result.is_anomaly
       THEN /\ main_pc' = "fetch_detailed"
            /\ queries' = DetailedNames
            /\ results' = EmptyDict
       ELSE /\ main_pc' = "llm"
            /\ UNCHANGED <<queries, results>>
    /\ UNCHANGED <<detector, history, analysis, environ, force_detailed, backend,
                   main_summary, llm_analysis, trace, exit_code>>

\* detect returned: lines 154-178 up to the entry of execute_queries
DetectReturned ==
    /\ main_pc = "detecting"
    /\ pc = "done"
    /\ detailed' = None
    /\ IF result.is_anomaly \/ force_detailed
       THEN /\ main_pc' = "fetch_detailed"
            /\ queries' = DetailedNames
            /\ results' = EmptyDict
       ELSE /\ main_pc' = "llm"
            /\ UNCHANGED <<queries, results>>
    /\ UNCHANGED <<detector, history, analysis, environ, force_detailed, backend,
                   main_summary, llm_analysis, trace, exit_code>>

\* detect raised: nothing in main catches it
DetectRaised ==
    /\ main_pc = "detecting"
    /\ pc = "raised"
    /\ Exit(Uncaught)
    /\ UNCHANGED <<detector, history, analysis, environ, force_detailed, backend,
                   queries, results, main_summary, detailed, llm_analysis, trace>>

\* execute_queries returns the detailed metrics (line 178)
DetailedFetched ==
    /\ main_pc = "fetch_detailed"
    /\ queries = <<>>
    /\ detailed' = results
    /\ main_pc' = "llm"
    /\ UNCHANGED <<detector, history, analysis, environ, force_detailed, backend,
                   queries, results, main_summary, llm_analysis, trace,
                   exit_code>>

\* variant: an exception of the analysis leaves main
AnalyzeUncaught ==
    /\ main_pc = "llm"
    /\ \/ \E text \in AnalysisTexts :
              /\ llm_analysis' = text
              /\ trace' = Append(trace, Effect("llm", "", TRUE, Unset))
              /\ main_pc' = "save_metrics"
              /\ UNCHANGED exit_code
       \/ /\ llm_analysis' = Unset
          /\ trace' = Append(trace, Effect("llm", "", FALSE, Unset))
          /\ Exit(Uncaught)
    /\ UNCHANGED <<detector, history, analysis, environ, force_detailed, backend,
                   queries, results, main_summary, detailed>>

\* lines 182-193: analyze_metrics_sync returns a text or raises (it re-raises
\* whatever the SDK or asyncio raised); the except puts the fixed text
Analyze ==
    /\ main_pc = "llm"
    /\ \/ \E text \in AnalysisTexts :
              /\ llm_analysis' = text
              /\ trace' = Append(trace, Effect("llm", "", TRUE, Unset))
       \/ /\ llm_analysis' = ErrorText
          /\ trace' = Append(trace, Effect("llm", "", FALSE, Unset))
    /\ main_pc' = "save_metrics"
    /\ UNCHANGED <<detector, history, analysis, environ, force_detailed, backend,
                   queries, results, main_summary, detailed, exit_code>>

\* save_result (lines 28-43): the write succeeds or raises OSError, which is
\* logged; nothing is returned to main either way that main reads
save_result(file, data) ==
    \E ok \in BOOLEAN : trace' = Append(trace, Effect("save", file, ok, data))

\* lines 196-204: the metrics artifact
SaveMetrics ==
    /\ main_pc = "save_metrics"
    /\ save_result("metrics",
                   [summary |-> main_summary, anomaly_detection |-> result,
                    detailed_metrics |-> detailed, llm_analysis |-> llm_analysis])
    /\ main_pc' = IF result.is_anomaly THEN "save_anomaly" ELSE "return"
    /\ UNCHANGED <<detector, history, analysis, environ, force_detailed, backend,
                   queries, results, main_summary, detailed, llm_analysis,
                   exit_code>>

\* lines 207-215: the anomaly artifact
SaveAnomaly ==
    /\ main_pc = "save_anomaly"
    /\ save_result("anomaly",
                   [severity |-> result.severity, anomalies |-> result.anomalies,
                    llm_analysis |-> llm_analysis])
    /\ main_pc' = "return"
    /\ UNCHANGED <<detector, history, analysis, environ, force_detailed, backend,
                   queries, results, main_summary, detailed, llm_analysis,
                   exit_code>>

\* line 220
MainReturn ==
    /\ main_pc = "return"
    /\ Exit(Returned(IF result.is_anomaly THEN 1 ELSE 0))
    /\ UNCHANGED <<detector, history, analysis, environ, force_detailed, backend,
                   queries, results, main_summary, detailed, llm_analysis, trace>>

MainNext ==
    \/ Start
    \/ ValidateConfig
    \/ QueryStep
    \/ SummaryFetched
    \/ CallDetect
    \/ CheckUp
    \/ CheckCpuUsage
    \/ CheckIowait
    \/ CheckLoad1
    \/ CheckMemoryUsage
    \/ CheckSwapUsage
    \/ CheckFsUsage
    \/ CheckFsReadonly
    \/ CheckNetworkErr
    \/ CheckTcpRetrans
    \/ CheckTcpOverflow
    \/ Judge
    \/ Return
    \/ DetectReturned
    \/ DetectRaised
    \/ DetailedFetched
    \/ Analyze
    \/ SaveMetrics
    \/ SaveAnomaly
    \/ MainReturn

\* main builds AnomalyDetector() with the configuration of config.py
MainInit == Init /\ config = DefaultConfig

SpecMain == MainInit /\ [][MainNext]_vars

-----------------------------------------------------------------------------
(* LLMAnalyzer._execute_analysis: src/llm_analyzer.py *)

\* the session delivers at most this many events during one call
MaxEvents == 3

\* the contents of assistant.message events
Contents == {"a", "b"}

Event(type, content) == [type |-> type, content |-> content]

\* the events of the session: the three the handler knows, and one it
\* ignores
SessionEvents ==
    {Event("assistant.message", c) : c \in Contents}
    \cup {Event("session.idle", ""), Event("session.error", ""),
          Event("assistant.usage", "")}

Delivered == SelectSeq(events, LAMBDA e : e.type # "wait_ended")

\* "\n".join(parts), as the sequence of its pieces
RECURSIVE Join(_)
Join(parts) ==
    IF Len(parts) = 0 THEN <<>>
    ELSE IF Len(parts) = 1 THEN <<parts[1]>>
    ELSE <<parts[1], "\n">> \o Join(Tail(parts))

UnchangedByAnalysis == UNCHANGED <<detector, history, process>>

\* lines 196-198: the client must have been started
Enter ==
    /\ llm_pc = "idle"
    /\ \E client \in BOOLEAN :
           llm_pc' = IF client THEN "create_session" ELSE "raised"
    /\ UNCHANGED <<session, result_content, done, events, llm_return>>
    /\ UnchangedByAnalysis

\* lines 200-225: the session is created, the locals are set up and the
\* handler is registered; create_session may raise, outside the try
CreateSession ==
    /\ llm_pc = "create_session"
    /\ \/ /\ session' = "open"
          /\ result_content' = <<>>
          /\ done' = FALSE
          /\ llm_pc' = "send"
       \/ /\ llm_pc' = "raised"
          /\ UNCHANGED <<session, result_content, done>>
    /\ UNCHANGED <<events, llm_return>>
    /\ UnchangedByAnalysis

\* line 226: the prompt is sent; an exception goes through the finally
Send ==
    /\ llm_pc = "send"
    /\ \/ llm_pc' = "wait"
       \/ llm_pc' = "destroy_raising"
    /\ UNCHANGED <<session, result_content, done, events, llm_return>>
    /\ UnchangedByAnalysis

\* on_event (lines 212-223), called by the session while the coroutine is
\* suspended in send, wait_for or destroy
OnEvent(event) ==
    /\ session = "open"
    /\ llm_pc \in {"send", "wait", "destroy", "destroy_raising"}
    /\ Len(Delivered) < MaxEvents
    /\ events' = Append(events, event)
    /\ CASE event.type = "assistant.message" ->
                /\ result_content' = Append(result_content, event.content)
                /\ UNCHANGED done
         [] event.type \in {"session.idle", "session.error"} ->
                /\ done' = TRUE
                /\ UNCHANGED result_content
         [] OTHER -> UNCHANGED <<result_content, done>>
    /\ UNCHANGED <<llm_pc, session, llm_return>>
    /\ UnchangedByAnalysis

\* lines 235-239: the value of the return statement
ReturnValue ==
    IF Len(result_content) > 0 THEN Join(result_content) ELSE <<NoResultText>>

\* line 230: done was set, wait_for returns; the return value is computed
WaitDone ==
    /\ llm_pc = "wait"
    /\ done
    /\ events' = Append(events, Event("wait_ended", "done"))
    /\ llm_return' = ReturnValue
    /\ llm_pc' = "destroy"
    /\ UNCHANGED <<session, result_content, done>>
    /\ UnchangedByAnalysis

\* variant: the wait has no timeout
WaitUnbounded ==
    /\ llm_pc = "wait"
    /\ FALSE
    /\ events' = Append(events, Event("wait_ended", "timeout"))
    /\ llm_return' = ReturnValue
    /\ llm_pc' = "destroy"
    /\ UNCHANGED <<session, result_content, done>>
    /\ UnchangedByAnalysis

\* lines 230-233: the 120 seconds are over before done was set; TimeoutError
\* is caught and the return value is computed from what has arrived
Timeout ==
    /\ llm_pc = "wait"
    /\ ~done
    /\ events' = Append(events, Event("wait_ended", "timeout"))
    /\ llm_return' = ReturnValue
    /\ llm_pc' = "destroy"
    /\ UNCHANGED <<session, result_content, done>>
    /\ UnchangedByAnalysis

\* lines 241-242: the finally clause, then the call ends
Destroy ==
    /\ llm_pc \in {"destroy", "destroy_raising"}
    /\ session' = "destroyed"
    /\ llm_pc' = IF llm_pc = "destroy" THEN "returned" ELSE "raised"
    /\ UNCHANGED <<result_content, done, events, llm_return>>
    /\ UnchangedByAnalysis

\* the steps of the coroutine
Progress ==
    \/ Enter
    \/ CreateSession
    \/ Send
    \/ WaitDone
    \/ Timeout
    \/ Destroy

LLMNext ==
    \/ Progress
    \/ \E event \in SessionEvents : OnEvent(event)

SpecLLM == MainInit /\ [][LLMNext]_vars

\* the event loop resumes a coroutine that can run, the timer of wait_for
\* fires, and the calls of the SDK come back; the session owes no event
SpecLLMFair == SpecLLM /\ WF_vars(Progress)

-----------------------------------------------------------------------------
(* Vocabulary of the properties *)

Done == pc = "done"

IsDefaultConfig == config = DefaultConfig

RulePcs ==
    {"up", "cpu_usage", "cpu_iowait", "load1", "memory_usage", "swap_usage",
     "fs_usage_top3", "fs_readonly", "network_err_per_sec",
     "tcp_retrans_per_sec", "tcp_listen_overflow_per_sec"}

\* the metric name the rule of a summary field writes into its records
MetricOf(key) == IF key = "fs_usage_top3" THEN "fs_usage" ELSE key

\* the field is neither missing nor null
HasNum(key) == key \in DOMAIN summary /\ summary[key].kind = "num"

HasList(key) == key \in DOMAIN summary /\ summary[key].kind = "list"

MissingOrNull(key) == key \notin DOMAIN summary \/ summary[key].kind = "none"

RECURSIVE SumSeq(_)
SumSeq(s) == IF s = <<>> THEN 0 ELSE Head(s) + SumSeq(Tail(s))

TierRank(tier) ==
    CASE tier = "normal"   -> 0
      [] tier = "low"      -> 1
      [] tier = "medium"   -> 2
      [] tier = "high"     -> 3
      [] tier = "critical" -> 4

-----------------------------------------------------------------------------
(* C1 *)

\* C1: whatever fields of the summary are missing or null, detect returns
\* without raising, and a rule whose field is missing or null emits no
\* record (every summary of the model is missing-or-null-or-well-shaped).
C1_NullFieldsAreSkipped ==
    /\ pc # "raised"
    /\ Done =>
          \A key \in RulePcs :
              MissingOrNull(key) =>
                  \A i \in 1..Len(result.anomalies) :
                      result.anomalies[i].metric # MetricOf(key)

-----------------------------------------------------------------------------
(* C2 *)

\* what the claim's table makes of one scalar rule: the record's metric and
\* value and the contribution, or nothing when the rule is not triggered
Triggered(cond, metric, value, contribution) ==
    IF cond
    THEN <<[metric |-> metric, value |-> value, add |-> contribution]>>
    ELSE <<>>

Over(key, limit) == HasNum(key) /\ summary[key].v > limit

ExpectedFs ==
    IF HasList("fs_usage_top3")
    THEN LET over == SelectSeq(summary["fs_usage_top3"].items,
                         LAMBDA e : e.value.v > thresholds.disk_usage)
         IN  [i \in 1..Len(over) |->
                 [metric |-> "fs_usage", value |-> over[i].value.v,
                  add |-> Min(weights.disk_high,
                              (over[i].value.v - thresholds.disk_usage) \div 2)]]
    ELSE <<>>

Expected ==
    LET v(key) == summary[key].v
    IN  Triggered(HasNum("up") /\ v("up") = 0, "up", 0, weights.system_down)
        \o Triggered(Over("cpu_usage", thresholds.cpu_usage),
                     "cpu_usage", v("cpu_usage"),
                     Min(weights.cpu_high,
                         (v("cpu_usage") - thresholds.cpu_usage) \div 2))
        \o Triggered(Over("cpu_iowait", thresholds.iowait),
                     "cpu_iowait", v("cpu_iowait"),
                     Min(weights.iowait_high, v("cpu_iowait") - thresholds.iowait))
        \o Triggered(Over("load1", F(10)), "load1", v("load1"),
                     Min(weights.load_extreme, v("load1")))
        \o Triggered(Over("memory_usage", thresholds.memory_usage),
                     "memory_usage", v("memory_usage"),
                     Min(weights.memory_high,
                         (v("memory_usage") - thresholds.memory_usage) \div 2))
        \o Triggered(Over("swap_usage", thresholds.swap_usage),
                     "swap_usage", v("swap_usage"),
                     Min(weights.swap_high,
                         v("swap_usage") - thresholds.swap_usage))
        \o ExpectedFs
        \o Triggered(Over("fs_readonly", 0), "fs_readonly", F(1),
                     weights.fs_readonly)
        \o Triggered(Over("network_err_per_sec",
                          thresholds.network_errors_per_sec),
                     "network_err_per_sec", v("network_err_per_sec"),
                     Min(weights.network_errors,
                         v("network_err_per_sec")
                             - thresholds.network_errors_per_sec))
        \o Triggered(Over("tcp_retrans_per_sec", thresholds.tcp_retrans_per_sec),
                     "tcp_retrans_per_sec", v("tcp_retrans_per_sec"),
                     Min(weights.tcp_retrans,
                         (v("tcp_retrans_per_sec")
                             - thresholds.tcp_retrans_per_sec) \div 5))
        \o Triggered(Over("tcp_listen_overflow_per_sec", 0),
                     "tcp_listen_overflow_per_sec",
                     v("tcp_listen_overflow_per_sec"),
                     Min(weights.tcp_overflow,
                         2 * v("tcp_listen_overflow_per_sec")))

\* C2: in every result, the anomaly list is the list of the triggered rules'
\* records in the fixed rule order (the filesystem entries in supplied
\* order), and the raw score is the sum of the triggered contributions of
\* the table; only a strict > triggers a rule.
C2_RecordsAndScoreFollowTheTable ==
    Done =>
        /\ Len(result.anomalies) = Len(Expected)
        /\ \A i \in 1..Len(Expected) :
               /\ result.anomalies[i].metric = Expected[i].metric
               /\ result.anomalies[i].value = Expected[i].value
        /\ severity_score = SumSeq([i \in 1..Len(Expected) |-> Expected[i].add])

\* a result whose summary holds one value equal to its threshold, which
\* triggers nothing, and one value over its threshold, which is reported
C2_Witness ==
    /\ Done
    /\ IsDefaultConfig
    /\ HasNum("cpu_iowait") /\ summary["cpu_iowait"].v = thresholds.iowait
    /\ Len(result.anomalies) = 1
    /\ severity_score > 0

-----------------------------------------------------------------------------
(* C3, under SpecSeverity *)

TierOrder == <<"critical", "high", "medium", "low">>

\* the first tier of TierOrder whose configured minimum is <= score
FirstTierReached(score) ==
    LET reached == {i \in 1..Len(TierOrder) :
                        severity_thresholds[TierOrder[i]] <= score}
    IN  IF reached = {} THEN "normal"
        ELSE TierOrder[CHOOSE i \in reached : \A j \in reached : i <= j]

\* C3: _calculate_severity returns, for every score, the first of critical,
\* high, medium, low whose configured minimum is <= the score, or normal; it
\* is monotone in the score; under the default cutoffs it maps score < 1 to
\* normal, [1,20) to low, [20,40) to medium, [40,80) to high, >= 80 to
\* critical.
C3_SeverityIsFirstTierReached ==
    pc = "classified" =>
        /\ severity \in {"critical", "high", "medium", "low", "normal"}
        /\ severity = FirstTierReached(severity_score)
        /\ \A lower \in Scores :
               lower <= severity_score =>
                   TierRank(_calculate_severity(lower)) <= TierRank(severity)
        /\ severity_thresholds = SEVERITY_THRESHOLDS =>
               /\ severity_score < F(1) <=> severity = "normal"
               /\ (F(1) <= severity_score /\ severity_score < F(20))
                      <=> severity = "low"
               /\ (F(20) <= severity_score /\ severity_score < F(40))
                      <=> severity = "medium"
               /\ (F(40) <= severity_score /\ severity_score < F(80))
                      <=> severity = "high"
               /\ severity_score >= F(80) <=> severity = "critical"

\* the score sits exactly on the medium cutoff of the default configuration
C3_Witness ==
    /\ pc = "classified"
    /\ severity_thresholds = SEVERITY_THRESHOLDS
    /\ severity_score = F(20)
    /\ severity = "medium"

-----------------------------------------------------------------------------
(* C4 *)

\* the tier of a score, by the partition of the line the cutoffs make
TierOfRaw(score) ==
    CASE score >= severity_thresholds.critical -> "critical"
      [] score < severity_thresholds.critical
           /\ score >= severity_thresholds.high -> "high"
      [] score < severity_thresholds.high
           /\ score >= severity_thresholds.medium -> "medium"
      [] score < severity_thresholds.medium
           /\ score >= severity_thresholds.low -> "low"
      [] score < severity_thresholds.low -> "normal"

UpZeroAndReadonly ==
    /\ DOMAIN summary = {"up", "fs_readonly"}
    /\ summary["up"] = Num(0)
    /\ summary["fs_readonly"] = Num(F(1))

\* C4: in every result, severity is the tier of the raw accumulated score
\* and severity_score is min(100, raw score); up=0 with fs_readonly=1 under
\* the default configuration has raw score 150, severity critical and
\* severity_score 100.
C4_TierFromRawScoreClampOnlyDisplayed ==
    Done =>
        /\ result.severity = TierOfRaw(severity_score)
        /\ result.severity_score =
               (IF severity_score > F(100) THEN F(100) ELSE severity_score)
        /\ (IsDefaultConfig /\ UpZeroAndReadonly) =>
               /\ severity_score = F(150)
               /\ result.severity = "critical"
               /\ result.severity_score = F(100)

C4_Witness ==
    /\ Done
    /\ IsDefaultConfig
    /\ UpZeroAndReadonly
    /\ severity_score = F(150)
    /\ result.severity_score = F(100)

-----------------------------------------------------------------------------
(* C5 *)

OnlyCpuUsage(n) ==
    DOMAIN summary = {"cpu_usage"} /\ summary["cpu_usage"] = Num(n)

\* C5: a cpu_usage, memory_usage or fs_usage record is tagged critical when
\* its value is >= 95 and warning otherwise, whatever the threshold; up and
\* fs_readonly records are tagged critical, all others warning; cpu_usage
\* 94.9 and 95.0 with threshold 80 are tagged warning and critical and both
\* score min(30, (v - 80) / 2).
C5_TagFlipsAt95 ==
    Done =>
        /\ \A i \in 1..Len(result.anomalies) :
               LET r == result.anomalies[i]
               IN  /\ r.severity \in {"warning", "critical"}
                   /\ r.metric \in {"cpu_usage", "memory_usage", "fs_usage"} =>
                          (r.severity = "critical" <=> r.value >= F(95))
                   /\ r.metric \in {"up", "fs_readonly"} =>
                          r.severity = "critical"
                   /\ r.metric \notin {"cpu_usage", "memory_usage", "fs_usage",
                                       "up", "fs_readonly"} =>
                          r.severity = "warning"
        /\ (IsDefaultConfig /\ OnlyCpuUsage(94900)) =>
               /\ result.anomalies[1].severity = "warning"
               /\ severity_score = Min(F(30), (94900 - F(80)) \div 2)
        /\ (IsDefaultConfig /\ OnlyCpuUsage(95000)) =>
               /\ result.anomalies[1].severity = "critical"
               /\ severity_score = Min(F(30), (95000 - F(80)) \div 2)

\* cpu_usage = 95.0 is reported and tagged critical; under the injected
\* threshold 50 as well
C5_Witness ==
    /\ Done
    /\ ~IsDefaultConfig
    /\ OnlyCpuUsage(95000)
    /\ Len(result.anomalies) = 1
    /\ result.anomalies[1].severity = "critical"

-----------------------------------------------------------------------------
(* C6 *)

\* C6: in every result, is_anomaly is true exactly when the list is
\* non-empty, anomaly_count is the length of the list, and a severity other
\* than normal implies is_anomaly.
C6_FlagAndCountFollowTheList ==
    Done =>
        /\ result.is_anomaly <=> Len(result.anomalies) > 0
        /\ result.anomaly_count = Len(result.anomalies)
        /\ result.severity # "normal" => result.is_anomaly

\* the converse fails: {tcp_listen_overflow_per_sec: 0.05} gives one record,
\* raw score 0.1 and tier normal
C6_Witness ==
    /\ Done
    /\ IsDefaultConfig
    /\ DOMAIN summary = {"tcp_listen_overflow_per_sec"}
    /\ summary["tcp_listen_overflow_per_sec"] = Num(50)
    /\ result.is_anomaly
    /\ result.anomaly_count = 1
    /\ severity_score = 100
    /\ result.severity = "normal"

-----------------------------------------------------------------------------
(* C7 *)

\* C7: for the summary with no key at all, under the default configuration,
\* detect returns is_anomaly false, an empty list, anomaly_count 0,
\* severity_score 0 and severity normal.
C7_EmptySummaryIsNormal ==
    (Done /\ IsDefaultConfig /\ DOMAIN summary = {}) =>
        result = [is_anomaly |-> FALSE, anomalies |-> <<>>,
                  severity |-> "normal", severity_score |-> 0,
                  anomaly_count |-> 0]

C7_Witness ==
    /\ Done
    /\ IsDefaultConfig
    /\ DOMAIN summary = {}
    /\ result.severity = "normal"

-----------------------------------------------------------------------------
(* C8 *)

\* the record the claim describes for one entry over the threshold
FsRecord(e) ==
    [metric |-> "fs_usage",
     message |-> "disk usage high",
     severity |-> IF e.value.v >= F(95) THEN "critical" ELSE "warning",
     value |-> e.value.v,
     threshold |-> thresholds.disk_usage,
     mountpoint |->
         IF "labels" \in DOMAIN e /\ "mountpoint" \in DOMAIN e.labels
         THEN e.labels.mountpoint
         ELSE "unknown"]

FsOver ==
    IF HasList("fs_usage_top3")
    THEN SelectSeq(summary["fs_usage_top3"].items,
                   LAMBDA e : e.value.v > thresholds.disk_usage)
    ELSE <<>>

RootAndData ==
    /\ DOMAIN summary = {"fs_usage_top3"}
    /\ summary["fs_usage_top3"] =
           List(<<Entry("/", 92000), Entry("/data", 60000)>>)

\* C8: the filesystem rule appends exactly one fs_usage record for each
\* entry of fs_usage_top3 over threshold.disk_usage, in supplied order, with
\* the entry's mountpoint label or "unknown", and adds
\* min(weight.disk_high, (value - threshold) / 2) for each; entries
\* ("/", 92.0), ("/data", 60.0) under the default configuration give one
\* record, for "/", tagged warning, and score 1.0.
C8_OneRecordPerEntryOverThreshold ==
    /\ [][(pc = "fs_usage_top3" /\ pc' # "raised") =>
              /\ anomalies' =
                     anomalies \o [i \in 1..Len(FsOver) |-> FsRecord(FsOver[i])]
              /\ severity_score' =
                     severity_score
                     + SumSeq([i \in 1..Len(FsOver) |->
                                  Min(weights.disk_high,
                                      (FsOver[i].value.v - thresholds.disk_usage)
                                          \div 2)])]_vars
    /\ [](( Done /\ IsDefaultConfig /\ RootAndData) =>
              /\ Len(result.anomalies) = 1
              /\ result.anomalies[1].metric = "fs_usage"
              /\ result.anomalies[1].mountpoint = "/"
              /\ result.anomalies[1].severity = "warning"
              /\ severity_score = F(1))

\* two entries over the threshold, the second without a mountpoint label
C8_Witness ==
    /\ Done
    /\ Len(result.anomalies) = 2
    /\ result.anomalies[1].metric = "fs_usage"
    /\ result.anomalies[1].mountpoint = "/"
    /\ result.anomalies[2].metric = "fs_usage"
    /\ result.anomalies[2].mountpoint = "unknown"

-----------------------------------------------------------------------------
(* C9 *)

\* the weight that caps the rule at a position of detect
WeightOf(rule) ==
    CASE rule = "up"                 -> weights.system_down
      [] rule = "cpu_usage"          -> weights.cpu_high
      [] rule = "cpu_iowait"         -> weights.iowait_high
      [] rule = "load1"              -> weights.load_extreme
      [] rule = "memory_usage"       -> weights.memory_high
      [] rule = "swap_usage"         -> weights.swap_high
      [] rule = "fs_usage_top3"      -> weights.disk_high
      [] rule = "fs_readonly"        -> weights.fs_readonly
      [] rule = "network_err_per_sec" -> weights.network_errors
      [] rule = "tcp_retrans_per_sec" -> weights.tcp_retrans
      [] rule = "tcp_listen_overflow_per_sec" -> weights.tcp_overflow

\* C9 as stated: the total a rule adds to the score in one call is at most
\* the rule's weight, the disk_high rule with several entries included.
C9_RuleTotalWithinWeight ==
    [][(pc \in RulePcs) =>
           severity_score' - severity_score <= WeightOf(pc)]_vars

\* C9 as amended: every record a rule emits adds at most the rule's weight:
\* a rule other than disk_high emits at most one record and so adds at most
\* its weight, and disk_high adds at most weight.disk_high for each entry
\* over the threshold.
C9_EachRecordWithinWeight ==
    [][(pc \in RulePcs) =>
           LET emitted == Len(anomalies') - Len(anomalies)
           IN  /\ pc # "fs_usage_top3" => emitted \in {0, 1}
               /\ emitted >= 0
               /\ severity_score' - severity_score <= WeightOf(pc) * emitted]_vars

\* the filesystem rule alone has added more than weight.disk_high
C9_Witness ==
    /\ pc = "fs_readonly"
    /\ Len(anomalies) = 2
    /\ \A i \in 1..Len(anomalies) : anomalies[i].metric = "fs_usage"
    /\ severity_score > weights.disk_high

-----------------------------------------------------------------------------
(* C10 *)

\* C10: with non-negative weights the running score never decreases from
\* one rule to the next, and the reported severity_score lies in 0..100.
C10_ScoreGrowsAndDisplayIsClamped ==
    /\ [][(pc \in RulePcs) => severity_score' >= severity_score]_vars
    /\ [](Done => (0 <= result.severity_score /\ result.severity_score <= F(100)))

\* the raw score exceeds 100 and the reported one is 100
C10_Witness ==
    /\ Done
    /\ severity_score > F(100)
    /\ result.severity_score = F(100)
    /\ \A w \in DOMAIN weights : weights[w] >= 0

-----------------------------------------------------------------------------
(* C11 *)

\* the field holds something its rule does not expect: a list where a number
\* is read, or an fs_usage_top3 of MalformedFs
Malformed(key) ==
    /\ key \in DOMAIN summary
    /\ summary[key] \in MalformedValues(key)

HasRecord(metric) ==
    \E i \in 1..Len(result.anomalies) : result.anomalies[i].metric = metric

\* C11: detect never raises for an optional field of unexpected shape (a
\* list in a scalar field, an fs_usage_top3 that is not a list, an entry
\* that is not a mapping or whose labels is null): it returns, the rule of
\* that field emits nothing, and the rules of the other fields still emit
\* their records.
C11_UnexpectedShapesAreSkipped ==
    /\ pc # "raised"
    /\ Done =>
          /\ \A key \in RulePcs : Malformed(key) => ~HasRecord(MetricOf(key))
          /\ (HasNum("up") /\ summary["up"].v = 0) => HasRecord("up")
          /\ HasNum("tcp_listen_overflow_per_sec")
                 => HasRecord("tcp_listen_overflow_per_sec")

-----------------------------------------------------------------------------
(* Vocabulary of the properties of main *)

Exited == main_pc = "exited"

\* the positions of the trace holding the effect op on arg
At(op, arg) == {i \in 1..Len(trace) : trace[i].op = op /\ trace[i].arg = arg}

Happened(op) == \E i \in 1..Len(trace) : trace[i].op = op

\* the names of the queries sent so far, in the order they were sent
Sent ==
    LET sent == SelectSeq(trace, LAMBDA e : e.op = "query")
    IN  [i \in 1..Len(sent) |-> sent[i].arg]

\* the query got no data: the request failed or the status is an error
Failed(name) == backend[name] \in {RequestError, ErrorStatus}

\* main has got the summary from execute_queries
HasSummary == main_summary # Unbound

\* main is past the call of detect and detect returned
DetectDone == detailed # Unbound

-----------------------------------------------------------------------------
(* C12 *)

\* C12: every run of main ends by returning 0 or 1, and by no other way: 1
\* when the configuration is incomplete, a fetch failed outright or detect
\* reported an anomaly, 0 when detect reported none.
C12_RunEndsWithZeroOrOne ==
    Exited =>
        /\ exit_code.how = "returned"
        /\ exit_code.code \in {0, 1}
        /\ exit_code.code = 0 <=> (pc = "done" /\ ~result.is_anomaly)

-----------------------------------------------------------------------------
(* C13 *)

\* one query of the summary batch fails and every other answer is the usual
OneFailure ==
    /\ main_pc # "idle"
    /\ \E name \in DOMAIN backend :
           /\ Failed(name)
           /\ \A other \in DOMAIN backend \ {name} : backend[other] = Usual(other)

\* C13: when a single summary query fails or returns an error status, the
\* batch goes on: every query is still sent, in order, the failed metric is
\* stored as null, and detect then runs through without raising.
C13_OneFailedQueryIsSkipped ==
    OneFailure =>
        /\ HasSummary =>
              /\ Sent = SummaryNames \/ Len(Sent) > Len(SummaryNames)
              /\ \A name \in DOMAIN main_summary :
                     Failed(name) => main_summary[name] = None
        /\ pc # "raised"

-----------------------------------------------------------------------------
(* C14 *)

\* C14: when every HTTP request of the summary batch fails, the run ends
\* with exit code 1 before detection: detect is never called and no artifact
\* is written.
C14_OutageAbortsBeforeDetection ==
    (main_pc # "idle" /\ backend = OutageBackend) =>
        /\ ~Happened("detect")
        /\ ~Happened("save")
        /\ Exited => exit_code = Returned(1)

-----------------------------------------------------------------------------
(* C15 *)

\* the run went through the analysis and ended
Persisted == Exited /\ Happened("llm")

\* C15: once detect has returned, a failure of the analysis or of a write
\* changes neither the detection result nor the exit code: main returns 1 if
\* is_anomaly and 0 otherwise, a failed analysis is replaced by the fixed
\* text, both artifacts are attempted (the second on an anomaly), and what
\* they are given is the result detect returned.
C15_FailuresAfterDetectChangeNothing ==
    Persisted =>
        /\ pc = "done"
        /\ exit_code = Returned(IF result.is_anomaly THEN 1 ELSE 0)
        /\ \A i \in At("llm", "") : ~trace[i].ok => llm_analysis = ErrorText
        /\ At("save", "metrics") # {}
        /\ result.is_anomaly => At("save", "anomaly") # {}
        /\ \A i \in At("save", "metrics") :
               /\ trace[i].data.anomaly_detection = result
               /\ trace[i].data.llm_analysis = llm_analysis
        /\ \A i \in At("save", "anomaly") :
               /\ trace[i].data.severity = result.severity
               /\ trace[i].data.anomalies = result.anomalies
               /\ trace[i].data.llm_analysis = llm_analysis

\* an anomalous run whose analysis and first write both failed
C15_Witness ==
    /\ Persisted
    /\ result.is_anomaly
    /\ \E i \in At("llm", "") : ~trace[i].ok
    /\ \E i \in At("save", "metrics") : ~trace[i].ok
    /\ \E i \in At("save", "anomaly") : trace[i].ok
    /\ exit_code = Returned(1)

-----------------------------------------------------------------------------
(* C17 *)

IsDetailedName(name) == \E k \in 1..Len(DetailedNames) : DetailedNames[k] = name

DetailedSent ==
    \E i \in 1..Len(trace) : trace[i].op = "query" /\ IsDetailedName(trace[i].arg)

-----------------------------------------------------------------------------
(* C19 *)

\* the series the backend returns for the query (none when it fails)
SeriesOf(name) ==
    LET answer == query(backend[name])
    IN  IF answer.raised \/ answer.data = None THEN <<>>
        ELSE Get(answer.data, "result", <<>>)

Valued(series) == SelectSeq(series, LAMBDA item : "value" \in DOMAIN item)

NameSet(names) == {names[i] : i \in 1..Len(names)}

\* the shape the claim gives to the value of a query with n series
ShapeByCount(value, n) ==
    CASE n = 0 -> value = None
      [] n = 1 -> value.kind = "num"
      [] OTHER -> value.kind = "list"

\* the same, a series without a sample value not counting as a scalar
ShapeByValuedCount(value, series) ==
    CASE Len(series) = 0 -> value = None
      [] Len(series) = 1 ->
             IF Valued(series) = <<>> THEN value = None ELSE value.kind = "num"
      [] OTHER ->
             /\ value.kind = "list"
             /\ Len(value.items) = Len(Valued(series))
             /\ \A i \in 1..Len(value.items) :
                    DOMAIN value.items[i] = {"labels", "value"}

\* C19 as stated: the key set of the returned mapping is the key set of the
\* queries, the shape of each value follows the number of series alone
\* (none or failed: null, one: a scalar, two or more: a list), and one
\* series for fs_usage_top3 gives a scalar and no fs_usage record.
C19_ShapeFollowsSeriesCount ==
    /\ HasSummary =>
          /\ DOMAIN main_summary = NameSet(SummaryNames)
          /\ \A name \in DOMAIN main_summary :
                 ShapeByCount(main_summary[name], Len(SeriesOf(name)))
    /\ IsMapping(detailed) =>
          /\ DOMAIN detailed = NameSet(DetailedNames)
          /\ \A name \in DOMAIN detailed :
                 ShapeByCount(detailed[name], Len(SeriesOf(name)))
    /\ (HasSummary /\ Done /\ Len(SeriesOf("fs_usage_top3")) = 1) =>
          ~HasRecord("fs_usage")

\* C19 amended: as above, except that a single series without a sample value
\* gives null and a list holds the series that have a value.
C19_ShapeFollowsValuedSeries ==
    /\ HasSummary =>
          /\ DOMAIN main_summary = NameSet(SummaryNames)
          /\ \A name \in DOMAIN main_summary :
                 ShapeByValuedCount(main_summary[name], SeriesOf(name))
    /\ IsMapping(detailed) =>
          /\ DOMAIN detailed = NameSet(DetailedNames)
          /\ \A name \in DOMAIN detailed :
                 ShapeByValuedCount(detailed[name], SeriesOf(name))
    /\ (HasSummary /\ Done /\ Len(SeriesOf("fs_usage_top3")) = 1) =>
          /\ main_summary["fs_usage_top3"].kind \in {"num", "none"}
          /\ ~HasRecord("fs_usage")

\* one filesystem at 96.0: a scalar in the summary, detect returned, no
\* fs_usage record
C19_Witness ==
    /\ HasSummary
    /\ Done
    /\ Len(SeriesOf("fs_usage_top3")) = 1
    /\ main_summary["fs_usage_top3"] = Num(96000)
    /\ ~HasRecord("fs_usage")

-----------------------------------------------------------------------------
(* C18 *)

\* calls on the same summary gave the same outcome, and the detector has
\* the configuration it had at each earlier return
SameInputSameResult ==
    /\ \A i, j \in 1..Len(history) :
           history[i].summary = history[j].summary
               => history[i].outcome = history[j].outcome
    /\ \A i \in 1..Len(history) :
           /\ history[i].config = config
           /\ (pc \in {"done", "raised"} /\ history[i].summary = summary)
                  => history[i].outcome = Outcome

\* no step of a call writes the configuration, and from the entry of a call
\* to its end no step writes the summary
DetectWritesNoInput ==
    /\ config' = config
    /\ pc # "idle" => summary' = summary

\* C18: detect never writes the thresholds, weights, cutoffs or the input
\* summary and keeps no state between calls: calls on an identical summary,
\* one after another or with calls on other summaries between them, return
\* identical results.
C18_DetectIsStateless == []SameInputSameResult /\ [][DetectWritesNoInput]_vars

\* three calls, the first and the third on one summary that reports an
\* anomaly, the second on another summary
C18_Witness ==
    /\ Len(history) = 3
    /\ history[1].summary = history[3].summary
    /\ history[2].summary # history[1].summary
    /\ "anomaly_count" \in DOMAIN history[1].outcome
    /\ history[1].outcome.anomaly_count > 0
    /\ history[3].outcome = history[1].outcome

-----------------------------------------------------------------------------
(* C16 *)

\* the contents of the assistant.message events delivered before the wait
\* ended, in the order of arrival
RECURSIVE BeforeWaitEnded(_)
BeforeWaitEnded(log) ==
    IF log = <<>> \/ Head(log).type = "wait_ended" THEN <<>>
    ELSE IF Head(log).type = "assistant.message"
         THEN <<Head(log).content>> \o BeforeWaitEnded(Tail(log))
         ELSE BeforeWaitEnded(Tail(log))

ReturnsTheMessages ==
    llm_pc = "returned" =>
        /\ llm_return = IF BeforeWaitEnded(events) = <<>>
                        THEN <<NoResultText>>
                        ELSE Join(BeforeWaitEnded(events))
        /\ session = "destroyed"

DestroysTheSession ==
    llm_pc = "raised" => session \in {"none", "destroyed"}

====
